---- MODULE Spec2Model ----
(***************************************************************************)
(* Model of the knowledge_manager handlers and business objects:           *)
(*   lambdas/app_behaviour_bo.py, lambdas/app_role_bo.py,                   *)
(*   lambdas/long_memory_bo.py, lambdas/context_retriever.py,               *)
(*   lambdas/knowledge_retriever.py, lambdas/long_memory_updater.py,        *)
(*   knowledge_manager/knowledge_manager_stack.py.                          *)
(*                                                                         *)
(* Python values are tagged records: None, str (a tuple of characters),    *)
(* dict (a function from key names to values).  The key-value store, the   *)
(* HTTP endpoint, the event bus and the clock are external collaborators:  *)
(* the store is a set of items with the key schema the stack declares, the *)
(* HTTP answers are inputs of the actions, the clock is the variable now.  *)
(***************************************************************************)
EXTENDS Integers, Sequences, FiniteSets, TLC

VARIABLES
    behaviourTable,   \* items of the table named by APP_BEHAVIOUR_TABLE_NAME
    roleTable,        \* items of the table named by APP_ROLE_TABLE_NAME
    memoryTable,      \* items of the table named by USER_LONG_TERM_MEMORY_TABLE_NAME
    now,              \* int(time.time())
    behaviourCache,   \* lru_cache of AppBehaviourBO.get_behaviour_source
    roleCache,        \* lru_cache of AppRoleBO.get_role_source
    memoryCache,      \* lru_cache of UserLongTermMemoryBO.get_last_memory
    env,              \* environment variables of each Lambda function
    driver,           \* what drives the run: the handlers, or calls on one business object class
    prev,             \* ghost: what the held object's lookups returned so far
    call              \* record of the last invocation: inputs, outcome, effects,
                      \* and the table as it was before

vars == <<behaviourTable, roleTable, memoryTable, now, behaviourCache, roleCache,
          memoryCache, env, driver, prev, call>>

-----------------------------------------------------------------------------
(* Bounds of the model *)

MaxTime == 1
MaxCalls == 2

-----------------------------------------------------------------------------
(* Python values *)

None == [t |-> "None"]

PyStr(chars) == [t |-> "str", v |-> chars]

PyDict(f) == [t |-> "dict", v |-> f]

EmptyStr == PyStr(<<>>)

\* a presence test that lets the empty string through
IsFalsyNoneOnly(x) == x.t = "None"

\* `not x`: None, the empty string and the empty dict are falsy
IsFalsy(x) ==
    \/ x.t = "None"
    \/ x.t = "str" /\ x.v = <<>>
    \/ x.t = "dict" /\ DOMAIN x.v = {}

\* a merge in which the left dict's value wins where both have the key
DictMergeKeepingLeft(d, e) ==
    PyDict([k \in (DOMAIN d.v) \cup (DOMAIN e.v) |->
               IF k \in DOMAIN d.v THEN d.v[k] ELSE e.v[k]])

\* dict.get(key): the value, or None when the key is absent
DictGet(d, key) == IF key \in DOMAIN d.v THEN d.v[key] ELSE None

\* {**d, **e} and d | e: the keys of both, e's value where both have the key
DictMerge(d, e) ==
    PyDict([k \in (DOMAIN d.v) \cup (DOMAIN e.v) |->
               IF k \in DOMAIN e.v THEN e.v[k] ELSE d.v[k]])

\* str.startswith(prefix)
StartsWith(s, prefix) ==
    /\ Len(s.v) >= Len(prefix)
    /\ SubSeq(s.v, 1, Len(prefix)) = prefix

EndsWith(s, suffix) ==
    /\ Len(s.v) >= Len(suffix)
    /\ SubSeq(s.v, Len(s.v) - Len(suffix) + 1, Len(s.v)) = suffix

\* str(x) as an f-string renders it
Format(x) == IF x.t = "None" THEN <<"N", "o", "n", "e">> ELSE x.v

-----------------------------------------------------------------------------
(* The values the inputs are drawn from *)

A1 == PyStr(<<"a", "1">>)
A2 == PyStr(<<"a", "2">>)
A3 == PyStr(<<"a", "3">>)
A4 == PyStr(<<"a", "4">>)
A5 == PyStr(<<"a", "5">>)
U1 == PyStr(<<"u", "1">>)
U2 == PyStr(<<"u", "2">>)
M1 == PyStr(<<"m", "1">>)
M2 == PyStr(<<"m", "2">>)
Old == PyStr(<<"o", "l", "d">>)
Msg == PyStr(<<"h", "i">>)
Url == PyStr(<<"h", "t", "t", "p", "s", ":", "x">>)
Native == PyStr(<<"h", "t", "m", "l">>)
Page == PyStr(<<"p", "a", "g", "e">>)

AppIds == {A1, A2, A3, A4, A5}
UserIds == {U1, U2}
Memories == {M1, M2}

\* the (user, memory) pairs that writers other than the updater add
MemoryWrites == {<<U1, M1>>, <<U1, M2>>, <<U2, M2>>}
Sources == {None, EmptyStr, Native, Url}
HttpBodies == {None, EmptyStr, Page}

-----------------------------------------------------------------------------
(* The key-value store (app_common.dynamodb_utils.DynamoDBBase) *)

\* AppBehaviour.to_dict
AppBehaviour(app_id, behaviour_source) ==
    PyDict([app_id |-> app_id, behaviour_source |-> behaviour_source])

\* AppRole.to_dict
AppRole(app_id, role_source) ==
    PyDict([app_id |-> app_id, role_source |-> role_source])

\* an item that has the partition key and no other attribute
BareItem(app_id) == PyDict([app_id |-> app_id])

\* get_by_partition_key(pk_name, pk_value): the list of the items of the partition
get_by_partition_key(table, pk_name, pk_value) ==
    LET S == {it \in table : it.v[pk_name] = pk_value}
    IN  IF S = {} THEN <<>> ELSE <<CHOOSE it \in S : TRUE>>

\* the k items of S with the least sort key, least first
RECURSIVE FirstItems(_, _)
FirstItems(S, k) ==
    IF k = 0 \/ S = {} THEN <<>>
    ELSE LET m == CHOOSE x \in S : \A y \in S : y.v.timestamp >= x.v.timestamp
         IN  <<m>> \o FirstItems(S \ {m}, k - 1)

\* the k items of S with the greatest sort key, greatest first
RECURSIVE LastItems(_, _)
LastItems(S, k) ==
    IF k = 0 \/ S = {} THEN <<>>
    ELSE LET m == CHOOSE x \in S : \A y \in S : y.v.timestamp <= x.v.timestamp
         IN  <<m>> \o LastItems(S \ {m}, k - 1)

\* _get_last_items_by_key(key_name, key_value, k)
get_last_items_by_key(table, key_name, key_value, k) ==
    LastItems({it \in table : it.v[key_name] = key_value}, k)

\* UserLongTermMemory(user_id, memory).to_dict(), built at time `clock`
UserLongTermMemory(user_id, memory, clock) ==
    PyDict([user_id |-> user_id, timestamp |-> clock, memory |-> memory])

\* add(item) on the memory table, whose primary key is (user_id, timestamp):
\* the item replaces the stored item of the same key
PutItem(table, item) ==
    {it \in table : ~(/\ it.v.user_id = item.v.user_id
                      /\ it.v.timestamp = item.v.timestamp)} \cup {item}

\* a put on a table whose primary key is app_id alone
PutAppItem(table, item) ==
    {it \in table : it.v.app_id # item.v.app_id} \cup {item}

-----------------------------------------------------------------------------
(* functools.lru_cache: entries in order of use, the least recently used first *)

maxsize == 128

\* the entry of a business object that nothing references any more
Dead == [key |-> <<0, [t |-> "dead"]>>, val |-> None]

CacheIndex(cache, key) == {i \in DOMAIN cache : cache[i].key = key}

RemoveAt(seq, i) == SubSeq(seq, 1, i - 1) \o SubSeq(seq, i + 1, Len(seq))

\* a memoization that is switched off: every call computes
lru_cache_never_hits(cache, key, computed) ==
    [hit |-> FALSE, ret |-> computed, cache |-> cache]

\* one call of a function wrapped by lru_cache, with key (self, argument);
\* `computed` is what the wrapped function returns when it runs
lru_cache(cache, key, computed) ==
    IF CacheIndex(cache, key) # {}
    THEN LET i == CHOOSE j \in CacheIndex(cache, key) : TRUE
         IN  [hit |-> TRUE, ret |-> cache[i].val,
              cache |-> Append(RemoveAt(cache, i), cache[i])]
    ELSE [hit |-> FALSE, ret |-> computed,
          cache |-> Append(IF Len(cache) >= maxsize THEN Tail(cache) ELSE cache,
                           [key |-> key, val |-> computed])]

\* an object that outlives the call: its entries stay keyed on it
RetireNothing(cache, self) == cache

\* the object goes out of scope: its entries stay in the cache, unreachable
Retire(cache, self) ==
    [i \in DOMAIN cache |-> IF cache[i].key[1] = self THEN Dead ELSE cache[i]]

-----------------------------------------------------------------------------
(* AppBehaviourBO *)

HttpPrefix == <<"h", "t", "t", "p">>

\* AppBehaviourBO.get_behaviour_source
get_behaviour_source(cache, table, self, app_id) ==
    LET response == get_by_partition_key(table, "app_id", app_id)
        source == IF Len(response) = 0 THEN None
                  ELSE DictGet(response[1], "behaviour_source")
        r == lru_cache(cache, <<self, app_id>>, source)
    IN  [ret |-> r.ret, cache |-> r.cache, queries |-> IF r.hit THEN 0 ELSE 1]

\* AppBehaviourBO._load_url_content_as_text: http_request("GET", url).get("body")
load_url_content_as_text(url, response) ==
    [ret |-> DictGet(response, "body"),
     http |-> <<[method |-> "GET", url |-> url, response |-> response]>>]

\* a variant that fetches every non-empty source
get_behaviour_content_always_fetching(cache, table, self, app_id, response) ==
    LET s == get_behaviour_source(cache, table, self, app_id)
    IN  IF IsFalsy(s.ret)
        THEN [ret |-> None, cache |-> s.cache, queries |-> s.queries, http |-> <<>>]
        ELSE LET c == load_url_content_as_text(s.ret, response)
             IN  [ret |-> c.ret, cache |-> s.cache, queries |-> s.queries,
                  http |-> c.http]

\* AppBehaviourBO.get_behaviour_content
get_behaviour_content(cache, table, self, app_id, response) ==
    LET s == get_behaviour_source(cache, table, self, app_id)
    IN  IF IsFalsy(s.ret)
        THEN [ret |-> None, cache |-> s.cache, queries |-> s.queries, http |-> <<>>]
        ELSE IF StartsWith(s.ret, HttpPrefix)
        THEN LET c == load_url_content_as_text(s.ret, response)
             IN  [ret |-> c.ret, cache |-> s.cache, queries |-> s.queries,
                  http |-> c.http]
        ELSE [ret |-> s.ret, cache |-> s.cache, queries |-> s.queries, http |-> <<>>]

-----------------------------------------------------------------------------
(* AppRoleBO *)

\* a lookup that reads the attribute of the other table
get_role_source_of_behaviour(cache, table, self, app_id) ==
    LET response == get_by_partition_key(table, "app_id", app_id)
        source == IF Len(response) = 0 THEN None
                  ELSE DictGet(response[1], "behaviour_source")
        r == lru_cache(cache, <<self, app_id>>, source)
    IN  [ret |-> r.ret, cache |-> r.cache, queries |-> IF r.hit THEN 0 ELSE 1]

\* AppRoleBO.get_role_source
get_role_source(cache, table, self, app_id) ==
    LET response == get_by_partition_key(table, "app_id", app_id)
        source == IF Len(response) = 0 THEN None
                  ELSE DictGet(response[1], "role_source")
        r == lru_cache(cache, <<self, app_id>>, source)
    IN  [ret |-> r.ret, cache |-> r.cache, queries |-> IF r.hit THEN 0 ELSE 1]

\* AppRoleBO.get_role_content
get_role_content(cache, table, self, app_id, response) ==
    LET s == get_role_source(cache, table, self, app_id)
    IN  IF IsFalsy(s.ret)
        THEN [ret |-> None, cache |-> s.cache, queries |-> s.queries, http |-> <<>>]
        ELSE IF StartsWith(s.ret, HttpPrefix)
        THEN LET c == load_url_content_as_text(s.ret, response)
             IN  [ret |-> c.ret, cache |-> s.cache, queries |-> s.queries,
                  http |-> c.http]
        ELSE [ret |-> s.ret, cache |-> s.cache, queries |-> s.queries, http |-> <<>>]

-----------------------------------------------------------------------------
(* UserLongTermMemoryBO *)

\* UserLongTermMemoryBO.get_last_memory
get_last_memory(cache, table, self, user_id) ==
    LET response == get_last_items_by_key(table, "user_id", user_id, 1)
        item == IF Len(response) = 0 THEN None ELSE response[1]
        r == lru_cache(cache, <<self, user_id>>, item)
    IN  [ret |-> r.ret, cache |-> r.cache, queries |-> IF r.hit THEN 0 ELSE 1]

\* UserLongTermMemoryBO.add_memory
add_memory(table, user_id, memory, clock) ==
    PutItem(table, UserLongTermMemory(user_id, memory, clock))

-----------------------------------------------------------------------------
(* Request bodies and HTTP answers *)

Missing == [t |-> "missing"]

\* the dict that holds the keys of f whose value is not Missing
MakeDict(f) == PyDict([k \in {j \in DOMAIN f : f[j] # Missing} |-> f[k]])

EmptyDict == PyDict(<<>>)

\* answers of http_request("GET", url): with or without a body
HttpResponses == {EmptyDict} \cup {PyDict([body |-> b]) : b \in HttpBodies}

\* the answers the handlers are run against: no body, a page
HandlerResponses == {EmptyDict, PyDict([body |-> Page])}

\* the app ids the handlers are run with: a URL source, a native source, an
\* empty source, no item
HandlerAppIds == {A1, A2, A3, A5}

ContextBodies ==
    {MakeDict([app_id |-> a, cbf_user_uuid |-> u, app_behaviour |-> x,
               user_long_term_memory |-> x]) :
        a \in {Missing, EmptyStr} \cup HandlerAppIds,
        u \in {Missing, EmptyStr} \cup UserIds,
        x \in {Missing, Old}}

KnowledgeBodies ==
    {MakeDict([app_id |-> a, cbf_user_uuid |-> u, app_role |-> r]) :
        a \in {Missing, EmptyStr} \cup HandlerAppIds,
        u \in {Missing, U1},
        r \in {Missing, Old}}

UpdaterBodies ==
    {MakeDict([cbf_user_uuid |-> u, user_message |-> mm[1], bot_message |-> mm[2],
               user_long_term_memory |-> m]) :
        u \in {Missing, EmptyStr} \cup UserIds,
        mm \in {<<Missing, Msg>>, <<Msg, EmptyStr>>, <<Msg, Msg>>},
        m \in {Missing, M1}}

-----------------------------------------------------------------------------
(* Environment variables (BaseLambdaHandler.get_env_var) *)

\* the variables KnowledgeManagerStack sets on ContextRetrieverLambda
ContextRetrieverLambdaEnvironment ==
    {"APP_ROLE_TABLE_NAME", "USER_LONG_TERM_MEMORY_TABLE_NAME"}

\* the variables KnowledgeManagerStack sets on UserLongTermMemoryUpdaterLambda
UserLongTermMemoryUpdaterLambdaEnvironment ==
    {"USER_LONG_TERM_MEMORY_TABLE_NAME", "AI_JOB_SERVICE_URL_SSM_FULL_PATH"}

\* the environments the stack deploys the handlers with
StackEnvironment ==
    [ContextRetriever |-> ContextRetrieverLambdaEnvironment,
     LongMemoryUpdater |-> UserLongTermMemoryUpdaterLambdaEnvironment,
     KnowledgeRetriever |-> {}]

\* an environment that sets every variable the handlers read
CompleteEnvironment ==
    [ContextRetriever |-> {"APP_BEHAVIOUR_TABLE_NAME", "USER_LONG_TERM_MEMORY_TABLE_NAME"},
     LongMemoryUpdater |-> {"USER_LONG_TERM_MEMORY_TABLE_NAME",
                            "AI_JOB_SERVICE_URL_SSM_FULL_PATH"},
     KnowledgeRetriever |-> {"APP_ROLE_TABLE_NAME"}]

\* get_env_var(name): whether the variable is there to be read
get_env_var(environment, name) == name \in environment

-----------------------------------------------------------------------------
(* ContextRetriever *)

\* the object a handler constructs and drops: no earlier entry is keyed on it
Local == 0

\* the outcome of an invocation that publishes nothing and returns nothing
Raise(outcome, envReads, http, bCache, mCache) ==
    [outcome |-> outcome, ret |-> None, published |-> <<>>, http |-> http,
     envReads |-> envReads, behaviourCache |-> bCache, memoryCache |-> mCache]

\* ContextRetriever._handle
ContextRetriever_handle(body, environment, bCache, bTable, mCache, mTable, response) ==
    LET app_id == DictGet(body, "app_id")
        user_id == DictGet(body, "cbf_user_uuid")
        b == get_behaviour_content(bCache, bTable, Local, app_id, response)
        bCache2 == Retire(b.cache, Local)
        m == get_last_memory(mCache, mTable, Local, user_id)
        mCache2 == Retire(m.cache, Local)
        last_memory_content == IF IsFalsy(m.ret) THEN None ELSE m.ret.v.memory
        payload == DictMerge(body, PyDict([app_behaviour |-> b.ret,
                                           user_long_term_memory |-> last_memory_content]))
        reads1 == {"APP_BEHAVIOUR_TABLE_NAME"}
        reads2 == reads1 \cup {"USER_LONG_TERM_MEMORY_TABLE_NAME"}
    IN  IF IsFalsy(app_id)
        THEN Raise("ValueError", {}, <<>>, bCache, mCache)
        ELSE IF ~get_env_var(environment, "APP_BEHAVIOUR_TABLE_NAME")
        THEN Raise("EnvVarMissing", reads1, <<>>, bCache, mCache)
        ELSE IF IsFalsy(b.ret)
        THEN Raise("ValueError", reads1, b.http, bCache2, mCache)
        ELSE IF ~get_env_var(environment, "USER_LONG_TERM_MEMORY_TABLE_NAME")
        THEN Raise("EnvVarMissing", reads2, b.http, bCache2, mCache)
        ELSE IF IsFalsy(user_id)
        THEN Raise("ValueError", reads2, b.http, bCache2, mCache)
        ELSE [outcome |-> "ok", ret |-> payload,
              published |-> <<[detail_type |-> "ContextRetrieved", message |-> payload]>>,
              http |-> b.http, envReads |-> reads2,
              behaviourCache |-> bCache2, memoryCache |-> mCache2]

-----------------------------------------------------------------------------
(* KnowledgeRetriever *)

\* KnowledgeRetriever._handle
KnowledgeRetriever_handle(body, environment, rCache, rTable, response) ==
    LET app_id == DictGet(body, "app_id")
        r == get_role_content(rCache, rTable, Local, app_id, response)
        rCache2 == Retire(r.cache, Local)
        payload == DictMerge(body, PyDict([app_role |-> r.ret]))
        reads == {"APP_ROLE_TABLE_NAME"}
    IN  IF IsFalsy(app_id)
        THEN [outcome |-> "ValueError", ret |-> None, published |-> <<>>,
              http |-> <<>>, envReads |-> {}, roleCache |-> rCache]
        ELSE IF ~get_env_var(environment, "APP_ROLE_TABLE_NAME")
        THEN [outcome |-> "EnvVarMissing", ret |-> None, published |-> <<>>,
              http |-> <<>>, envReads |-> reads, roleCache |-> rCache]
        ELSE IF IsFalsy(r.ret)
        THEN [outcome |-> "ValueError", ret |-> None, published |-> <<>>,
              http |-> r.http, envReads |-> reads, roleCache |-> rCache2]
        ELSE [outcome |-> "ok", ret |-> payload,
              published |-> <<[detail_type |-> "KnowledgeRetrieved", message |-> payload]>>,
              http |-> r.http, envReads |-> reads, roleCache |-> rCache2]

-----------------------------------------------------------------------------
(* LongMemoryUpdater *)

\* the text of a JSON object with the one member "summary"
SummaryOpen == <<"{", "\"", "s", "u", "m", "m", "a", "r", "y", "\"", ":", " ", "\"">>

SummaryClose == <<"\"", "}">>

JsonSummary(memory) == PyStr(SummaryOpen \o memory.v \o SummaryClose)

\* json.loads on the texts of AiOutputs: the parsed dict, or a JSONDecodeError
JsonLoads(text) ==
    IF text.v = <<"{", "}">>
    THEN [ok |-> TRUE, val |-> EmptyDict]
    ELSE IF /\ StartsWith(text, SummaryOpen)
            /\ EndsWith(text, SummaryClose)
            /\ Len(text.v) >= Len(SummaryOpen) + Len(SummaryClose)
            /\ \A i \in (Len(SummaryOpen) + 1)..(Len(text.v) - Len(SummaryClose)) :
                  text.v[i] \notin {"\"", "\\"}
    THEN [ok |-> TRUE,
          val |-> PyDict([summary |->
                     PyStr(SubSeq(text.v, Len(SummaryOpen) + 1,
                                  Len(text.v) - Len(SummaryClose)))])]
    ELSE [ok |-> FALSE, val |-> None]

\* the "output" texts the AI job service answers with
AiOutputs ==
    {JsonSummary(m) : m \in Memories} \cup {PyStr(<<"{", "}">>), PyStr(<<"o", "o", "p", "s">>)}

\* answers of the AI job service: no body, a body without output, a body with output
AiJobResults ==
    {EmptyDict, PyDict([body |-> EmptyDict])}
        \cup {PyDict([body |-> PyDict([output |-> o])]) : o \in AiOutputs}

\* the value of the SSM parameter /global/NewAIJobAPIURL
AiJobServiceUrl == PyStr(<<"h", "t", "t", "p", "s", ":", "a", "i">>)

\* LongMemoryUpdater.__gen_prompt_input_msg
gen_prompt_input_msg(current_summary, user_message, chatbot_response) ==
    PyStr(<<"### Current Summary:\n">> \o Format(current_summary)
          \o <<"\n\n### New Message:\nUser: ">> \o Format(user_message)
          \o <<"\nChatbot: ">> \o Format(chatbot_response))

\* LongMemoryUpdater.__get_assistant_behaviour
get_assistant_behaviour == PyStr(<<"You are an AI assistant ...">>)

\* a validation that forgets bot_message
UpdaterRejectsWithoutBotMessage(body) ==
    \/ IsFalsy(DictGet(body, "cbf_user_uuid"))
    \/ IsFalsy(DictGet(body, "user_message"))

\* the three `if not ...: raise ValueError` of LongMemoryUpdater._handle
UpdaterRejects(body) ==
    \/ IsFalsy(DictGet(body, "cbf_user_uuid"))
    \/ IsFalsy(DictGet(body, "user_message"))
    \/ IsFalsy(DictGet(body, "bot_message"))

\* the outcome of an invocation that ends in an exception
UpdaterRaise(outcome, envReads, http, mTable) ==
    [outcome |-> outcome, ret |-> None, published |-> <<>>, http |-> http,
     envReads |-> envReads, memoryTable |-> mTable, queries |-> 0]

\* LongMemoryUpdater._handle
LongMemoryUpdater_handle(body, environment, mTable, clock, ai_job_result) ==
    LET user_id == DictGet(body, "cbf_user_uuid")
        user_msg == DictGet(body, "user_message")
        bot_msg == DictGet(body, "bot_message")
        last_memory_content == DictGet(body, "user_long_term_memory")
        ai_job == PyDict([category |-> PyStr(<<"text-based">>),
                          input |-> PyDict(
                              [text |-> gen_prompt_input_msg(last_memory_content,
                                                             user_msg, bot_msg),
                               assistant_behaviour |-> get_assistant_behaviour])])
        post == <<[method |-> "POST", url |-> AiJobServiceUrl, json_data |-> ai_job,
                   response |-> ai_job_result]>>
        parsed == JsonLoads(DictGet(DictGet(ai_job_result, "body"), "output"))
        new_memory_content == parsed.val.v.summary
        reads1 == {"USER_LONG_TERM_MEMORY_TABLE_NAME"}
        reads2 == reads1 \cup {"AI_JOB_SERVICE_URL_SSM_FULL_PATH"}
    IN  IF UpdaterRejects(body)
        THEN UpdaterRaise("ValueError", {}, <<>>, mTable)
        ELSE IF ~get_env_var(environment, "USER_LONG_TERM_MEMORY_TABLE_NAME")
        THEN UpdaterRaise("EnvVarMissing", reads1, <<>>, mTable)
        ELSE IF ~get_env_var(environment, "AI_JOB_SERVICE_URL_SSM_FULL_PATH")
        THEN UpdaterRaise("EnvVarMissing", reads2, <<>>, mTable)
        ELSE IF \/ "body" \notin DOMAIN ai_job_result.v
                \/ DictGet(DictGet(ai_job_result, "body"), "output") = None
        THEN UpdaterRaise("RuntimeError", reads2, post, mTable)
        ELSE IF ~parsed.ok
        THEN UpdaterRaise("JSONDecodeError", reads2, post, mTable)
        ELSE IF "summary" \notin DOMAIN parsed.val.v
        THEN UpdaterRaise("KeyError", reads2, post, mTable)
        ELSE [outcome |-> "ok", ret |-> None, published |-> <<>>, http |-> post,
              envReads |-> reads2,
              memoryTable |-> add_memory(mTable, user_id, new_memory_content, clock),
              queries |-> 0]

-----------------------------------------------------------------------------
(* State machine *)

\* what the tables hold before the model's first step: a URL source, a native
\* source, an empty source, an item without the source attribute; no item for a5
InitBehaviourTable ==
    {AppBehaviour(A1, Url), AppBehaviour(A2, Native), AppBehaviour(A3, EmptyStr),
     BareItem(A4)}

InitRoleTable ==
    {AppRole(A1, Url), AppRole(A2, Native), AppRole(A3, EmptyStr), BareItem(A4)}

NoCall ==
    [op |-> "none", self |-> Local, arg |-> None, outcome |-> "none", ret |-> None,
     published |-> <<>>, http |-> <<>>, envReads |-> {}, queries |-> 0,
     before |-> {}]

InitState ==
    /\ behaviourTable = InitBehaviourTable
    /\ roleTable = InitRoleTable
    /\ memoryTable = {}
    /\ now = 0
    /\ behaviourCache = <<>>
    /\ roleCache = <<>>
    /\ memoryCache = <<>>
    /\ prev = <<>>
    /\ call = NoCall

Init ==
    /\ InitState
    /\ env = CompleteEnvironment
    /\ driver = "handlers"

\* time.time() moves on
Tick ==
    /\ now < MaxTime
    /\ now' = now + 1
    /\ UNCHANGED <<behaviourTable, roleTable, memoryTable, behaviourCache, roleCache,
                   memoryCache, env, driver, prev, call>>

\* context_retriever.handler: one invocation
ContextRetrieverHandle ==
    /\ driver = "handlers"
    /\ Len(behaviourCache) < MaxCalls
    /\ Len(memoryCache) < MaxCalls
    /\ \E body \in ContextBodies, response \in HandlerResponses :
          \E r \in {ContextRetriever_handle(body, env.ContextRetriever, behaviourCache,
                                             behaviourTable, memoryCache, memoryTable,
                                             response)} :
              /\ behaviourCache' = r.behaviourCache
              /\ memoryCache' = r.memoryCache
              /\ call' = [op |-> "ContextRetriever", self |-> Local, arg |-> body,
                          outcome |-> r.outcome, ret |-> r.ret,
                          published |-> r.published, http |-> r.http,
                          envReads |-> r.envReads, queries |-> 0, before |-> memoryTable]
    /\ UNCHANGED <<behaviourTable, roleTable, memoryTable, now, roleCache, env, driver,
                   prev>>

\* knowledge_retriever.handler: one invocation
KnowledgeRetrieverHandle ==
    /\ driver = "handlers"
    /\ Len(roleCache) < MaxCalls
    /\ \E body \in KnowledgeBodies, response \in HandlerResponses :
          \E r \in {KnowledgeRetriever_handle(body, env.KnowledgeRetriever, roleCache,
                                               roleTable, response)} :
              /\ roleCache' = r.roleCache
              /\ call' = [op |-> "KnowledgeRetriever", self |-> Local, arg |-> body,
                          outcome |-> r.outcome, ret |-> r.ret,
                          published |-> r.published, http |-> r.http,
                          envReads |-> r.envReads, queries |-> 0, before |-> memoryTable]
    /\ UNCHANGED <<behaviourTable, roleTable, memoryTable, now, behaviourCache,
                   memoryCache, env, driver, prev>>

\* long_memory_updater.handler: one invocation
LongMemoryUpdaterHandle ==
    /\ driver = "handlers"
    /\ \E body \in UpdaterBodies, ai_job_result \in AiJobResults :
          \E r \in {LongMemoryUpdater_handle(body, env.LongMemoryUpdater, memoryTable,
                                              now, ai_job_result)} :
              /\ memoryTable' = r.memoryTable
              /\ call' = [op |-> "LongMemoryUpdater", self |-> Local, arg |-> body,
                          outcome |-> r.outcome, ret |-> r.ret,
                          published |-> r.published, http |-> r.http,
                          envReads |-> r.envReads, queries |-> r.queries,
                          before |-> memoryTable]
    /\ UNCHANGED <<behaviourTable, roleTable, now, behaviourCache, roleCache,
                   memoryCache, env, driver, prev>>

\* UserLongTermMemoryBO(table_name).add_memory(user_id, memory) on an object of
\* its own, as LongMemoryUpdater._handle calls it
AddMemory ==
    /\ driver = "handlers"
    /\ \E w \in MemoryWrites :
          /\ memoryTable' = add_memory(memoryTable, w[1], w[2], now)
          /\ call' = [op |-> "add_memory", self |-> Local,
                      arg |-> PyDict([user_id |-> w[1], memory |-> w[2]]),
                      outcome |-> "ok", ret |-> None, published |-> <<>>,
                      http |-> <<>>, envReads |-> {}, queries |-> 0,
                      before |-> memoryTable]
    /\ UNCHANGED <<behaviourTable, roleTable, now, behaviourCache, roleCache,
                   memoryCache, env, driver, prev>>

\* the context retriever, next to writers of the memory table
Next ==
    \/ Tick
    \/ AddMemory
    \/ ContextRetrieverHandle

Spec == Init /\ [][Next]_vars

\* the long-term-memory updater
NextUpdater ==
    \/ Tick
    \/ LongMemoryUpdaterHandle

SpecUpdater == Init /\ [][NextUpdater]_vars

\* the handlers as KnowledgeManagerStack deploys them
InitDeployed ==
    /\ InitState
    /\ env = StackEnvironment
    /\ driver = "handlers"

SpecDeployed == InitDeployed /\ [][Next]_vars

-----------------------------------------------------------------------------
(* Knowledge retriever, next to an operator who edits the role table *)

\* the items an operator may store for app_id
RoleItems(app_id) ==
    {BareItem(app_id)} \cup {AppRole(app_id, src) : src \in {EmptyStr, Native, Url}}

BehaviourItems(app_id) ==
    {BareItem(app_id)}
        \cup {AppBehaviour(app_id, src) : src \in {EmptyStr, Native, Url}}

\* the table after the operator's edit: the item of app_id stored, or deleted
Edited(table, app_id, item) ==
    IF item = Missing THEN {it \in table : it.v.app_id # app_id}
    ELSE PutAppItem(table, item)

EditCall(op, app_id, item) ==
    [op |-> op, self |-> Local, arg |-> app_id, outcome |-> "ok", ret |-> item,
     published |-> <<>>, http |-> <<>>, envReads |-> {}, queries |-> 0, before |-> {}]

\* an operator stores or deletes the item of an app in the role table
WriteRoleTable(apps, sources) ==
    /\ driver \in {"role", "handlers"}
    /\ \E app_id \in apps :
          \E item \in {it \in RoleItems(app_id) : DictGet(it, "role_source") \in sources}
                          \cup {Missing} :
              /\ roleTable' = Edited(roleTable, app_id, item)
              /\ call' = EditCall("write_role_table", app_id, item)
    /\ UNCHANGED <<behaviourTable, memoryTable, now, behaviourCache, roleCache,
                   memoryCache, env, driver, prev>>

\* an operator stores or deletes the item of an app in the behaviour table
WriteBehaviourTable(apps, sources) ==
    /\ driver = "behaviour"
    /\ \E app_id \in apps :
          \E item \in {it \in BehaviourItems(app_id) :
                          DictGet(it, "behaviour_source") \in sources} \cup {Missing} :
              /\ behaviourTable' = Edited(behaviourTable, app_id, item)
              /\ call' = EditCall("write_behaviour_table", app_id, item)
    /\ UNCHANGED <<roleTable, memoryTable, now, behaviourCache, roleCache,
                   memoryCache, env, driver, prev>>

\* the app whose item the operator edits
EditedAppIds == {A5}

NextKnowledge ==
    \/ WriteRoleTable(EditedAppIds, Sources)
    \/ KnowledgeRetrieverHandle

SpecKnowledge == Init /\ [][NextKnowledge]_vars

-----------------------------------------------------------------------------
(* Calls on one business object that its caller keeps *)

Held == 1

\* the ghost of the calls made so far on the held object, per key: the value
\* the last call returned, and the number of other objects that made a lookup
\* through the same function since
Remember(key, ret) ==
    [k \in (DOMAIN prev) \cup {key} |->
        IF k = key THEN [ret |-> ret, others |-> 0] ELSE prev[k]]

OneMoreOther ==
    [k \in DOMAIN prev |->
        [prev[k] EXCEPT !.others = IF @ < maxsize THEN @ + 1 ELSE @]]

\* what a call on the held object records
BoCall(op, arg, r, cache, table, key) ==
    [op |-> op, self |-> Held, arg |-> arg, outcome |-> "ok", ret |-> r.ret,
     published |-> <<>>, http |-> r.http, envReads |-> {}, queries |-> r.queries,
     before |-> table,
     cached |-> CacheIndex(cache, key) # {},
     size |-> Len(cache),
     repeated |-> key \in DOMAIN prev,
     prevRet |-> IF key \in DOMAIN prev THEN prev[key].ret ELSE None,
     others |-> IF key \in DOMAIN prev THEN prev[key].others ELSE 0]

\* bo.get_behaviour_source(app_id)
BoGetBehaviourSource(apps) ==
    /\ driver = "behaviour"
    /\ \E app_id \in apps :
          \E r \in {get_behaviour_source(behaviourCache, behaviourTable, Held, app_id)} :
              /\ behaviourCache' = r.cache
              /\ prev' = Remember(<<Held, app_id>>, r.ret)
              /\ call' = BoCall("get_behaviour_source", app_id,
                                [ret |-> r.ret, queries |-> r.queries, http |-> <<>>],
                                behaviourCache, behaviourTable, <<Held, app_id>>)
    /\ UNCHANGED <<behaviourTable, roleTable, memoryTable, now, roleCache, memoryCache,
                   env, driver>>

\* bo.get_behaviour_content(app_id)
BoGetBehaviourContent(apps) ==
    /\ driver = "behaviour"
    /\ \E app_id \in apps, response \in HttpResponses :
          \E r \in {get_behaviour_content(behaviourCache, behaviourTable, Held, app_id,
                                          response)} :
              /\ behaviourCache' = r.cache
              /\ prev' = Remember(<<Held, app_id>>,
                                  get_behaviour_source(behaviourCache, behaviourTable,
                                                       Held, app_id).ret)
              /\ call' = BoCall("get_behaviour_content", app_id, r,
                                behaviourCache, behaviourTable, <<Held, app_id>>)
    /\ UNCHANGED <<behaviourTable, roleTable, memoryTable, now, roleCache, memoryCache,
                   env, driver>>

\* bo.get_role_source(app_id)
BoGetRoleSource(apps) ==
    /\ driver = "role"
    /\ \E app_id \in apps :
          \E r \in {get_role_source(roleCache, roleTable, Held, app_id)} :
              /\ roleCache' = r.cache
              /\ prev' = Remember(<<Held, app_id>>, r.ret)
              /\ call' = BoCall("get_role_source", app_id,
                                [ret |-> r.ret, queries |-> r.queries, http |-> <<>>],
                                roleCache, roleTable, <<Held, app_id>>)
    /\ UNCHANGED <<behaviourTable, roleTable, memoryTable, now, behaviourCache,
                   memoryCache, env, driver>>

\* bo.get_role_content(app_id)
BoGetRoleContent(apps) ==
    /\ driver = "role"
    /\ \E app_id \in apps, response \in HttpResponses :
          \E r \in {get_role_content(roleCache, roleTable, Held, app_id, response)} :
              /\ roleCache' = r.cache
              /\ prev' = Remember(<<Held, app_id>>,
                                  get_role_source(roleCache, roleTable, Held, app_id).ret)
              /\ call' = BoCall("get_role_content", app_id, r,
                                roleCache, roleTable, <<Held, app_id>>)
    /\ UNCHANGED <<behaviourTable, roleTable, memoryTable, now, behaviourCache,
                   memoryCache, env, driver>>

\* bo.get_last_memory(user_id)
BoGetLastMemory(users) ==
    /\ driver = "memory"
    /\ \E user_id \in users :
          \E r \in {get_last_memory(memoryCache, memoryTable, Held, user_id)} :
              /\ memoryCache' = r.cache
              /\ prev' = Remember(<<Held, user_id>>, r.ret)
              /\ call' = BoCall("get_last_memory", user_id,
                                [ret |-> r.ret, queries |-> r.queries, http |-> <<>>],
                                memoryCache, memoryTable, <<Held, user_id>>)
    /\ UNCHANGED <<behaviourTable, roleTable, memoryTable, now, behaviourCache,
                   roleCache, env, driver>>

\* bo.add_memory(user_id, memory)
BoAddMemory(writes) ==
    /\ driver = "memory"
    /\ \E w \in writes :
          /\ memoryTable' = add_memory(memoryTable, w[1], w[2], now)
          /\ call' = [op |-> "add_memory", self |-> Held,
                      arg |-> PyDict([user_id |-> w[1], memory |-> w[2]]),
                      outcome |-> "ok", ret |-> None, published |-> <<>>,
                      http |-> <<>>, envReads |-> {}, queries |-> 0,
                      before |-> memoryTable]
    /\ UNCHANGED <<behaviourTable, roleTable, now, behaviourCache, roleCache,
                   memoryCache, env, driver, prev>>

\* the clock of a run that drives the memory business object
BoTick == driver = "memory" /\ Tick

BoAppIds == {A1, A5}

InitBO ==
    /\ InitState
    /\ env = CompleteEnvironment
    /\ driver \in {"behaviour", "role", "memory"}

NextBO ==
    \/ BoGetBehaviourSource(BoAppIds)
    \/ BoGetBehaviourContent(BoAppIds)
    \/ WriteBehaviourTable(BoAppIds, Sources)
    \/ BoGetRoleSource(BoAppIds)
    \/ BoGetRoleContent(BoAppIds)
    \/ WriteRoleTable(BoAppIds, Sources)
    \/ BoGetLastMemory(UserIds)
    \/ BoAddMemory(MemoryWrites)
    \/ BoTick

SpecBO == InitBO /\ [][NextBO]_vars

-----------------------------------------------------------------------------
(* The held object in a warm container: the handlers' invocations have filled
   the caches with the entries of objects that are gone, and other objects
   keep making lookups *)

OtherCall(op, arg) ==
    [op |-> op, self |-> Local, arg |-> arg, outcome |-> "ok", ret |-> None,
     published |-> <<>>, http |-> <<>>, envReads |-> {}, queries |-> 1, before |-> {}]

\* another AppBehaviourBO looks a source up and goes out of scope
OtherBehaviourLookup(apps) ==
    /\ driver = "behaviour"
    /\ \E app_id \in apps :
          /\ behaviourCache' =
                 Retire(get_behaviour_source(behaviourCache, behaviourTable, Local,
                                             app_id).cache, Local)
          /\ call' = OtherCall("other_behaviour_lookup", app_id)
    /\ prev' = OneMoreOther
    /\ UNCHANGED <<behaviourTable, roleTable, memoryTable, now, roleCache, memoryCache,
                   env, driver>>

\* another AppRoleBO looks a source up and goes out of scope
OtherRoleLookup(apps) ==
    /\ driver = "role"
    /\ \E app_id \in apps :
          /\ roleCache' =
                 Retire(get_role_source(roleCache, roleTable, Local, app_id).cache, Local)
          /\ call' = OtherCall("other_role_lookup", app_id)
    /\ prev' = OneMoreOther
    /\ UNCHANGED <<behaviourTable, roleTable, memoryTable, now, behaviourCache,
                   memoryCache, env, driver>>

\* another UserLongTermMemoryBO looks a user up and goes out of scope
OtherMemoryLookup(users) ==
    /\ driver = "memory"
    /\ \E user_id \in users :
          /\ memoryCache' =
                 Retire(get_last_memory(memoryCache, memoryTable, Local, user_id).cache,
                        Local)
          /\ call' = OtherCall("other_memory_lookup", user_id)
    /\ prev' = OneMoreOther
    /\ UNCHANGED <<behaviourTable, roleTable, memoryTable, now, behaviourCache,
                   roleCache, env, driver>>

WarmCache == [i \in 1..maxsize |-> Dead]

InitLRU ==
    /\ behaviourTable = InitBehaviourTable
    /\ roleTable = InitRoleTable
    /\ memoryTable = {}
    /\ now = 0
    /\ behaviourCache = WarmCache
    /\ roleCache = WarmCache
    /\ memoryCache = WarmCache
    /\ prev = <<>>
    /\ call = NoCall
    /\ env = CompleteEnvironment
    /\ driver \in {"behaviour", "role", "memory"}

LruAppIds == {A5}
LruUserIds == {U1}
LruWrites == {w \in MemoryWrites : w[1] \in LruUserIds}

NextLRU ==
    \/ BoGetBehaviourSource(LruAppIds)
    \/ WriteBehaviourTable(LruAppIds, {Native})
    \/ OtherBehaviourLookup(LruAppIds)
    \/ BoGetRoleSource(LruAppIds)
    \/ WriteRoleTable(LruAppIds, {Native})
    \/ OtherRoleLookup(LruAppIds)
    \/ BoGetLastMemory(LruUserIds)
    \/ BoAddMemory(LruWrites)
    \/ OtherMemoryLookup(LruUserIds)
    \/ BoTick

SpecLRU == InitLRU /\ [][NextLRU]_vars

-----------------------------------------------------------------------------
(* Vocabulary of the claims, read off the store and the recorded exchange *)

\* a value that is missing (None) or empty
MissingOrEmpty(x) == x = None \/ x = EmptyStr

\* the source attribute the table holds for app_id, None without an item
StoredSource(table, attr, app_id) ==
    IF \E it \in table : it.v.app_id = app_id
    THEN DictGet(CHOOSE it \in table : it.v.app_id = app_id, attr)
    ELSE None

\* the content a source stands for, given the exchange of the call
ContentOf(source, http) ==
    IF MissingOrEmpty(source) THEN None
    ELSE IF ~StartsWith(source, HttpPrefix) THEN source
    ELSE IF http # <<>> THEN DictGet(http[1].response, "body")
    ELSE [t |-> "unfetched"]

ItemsOf(table, user_id) == {it \in table : it.v.user_id = user_id}

\* the item of user_id with the greatest timestamp, None without items
LatestItem(table, user_id) ==
    IF ItemsOf(table, user_id) = {} THEN None
    ELSE CHOOSE it \in ItemsOf(table, user_id) :
             \A other \in ItemsOf(table, user_id) :
                 other.v.timestamp <= it.v.timestamp

\* the memory of that item
LatestMemory(table, user_id) ==
    IF ItemsOf(table, user_id) = {} THEN None
    ELSE LatestItem(table, user_id).v.memory

OverriddenKeys == {"app_behaviour", "user_long_term_memory"}

ContextCall == call.op = "ContextRetriever"

ContextAppId == DictGet(call.arg, "app_id")

ContextUserId == DictGet(call.arg, "cbf_user_uuid")

ContextContent ==
    ContentOf(StoredSource(behaviourTable, "behaviour_source", ContextAppId), call.http)

\* one of the three validations of ContextRetriever._handle fails
ContextRejected ==
    \/ MissingOrEmpty(ContextAppId)
    \/ MissingOrEmpty(ContextContent)
    \/ MissingOrEmpty(ContextUserId)

-----------------------------------------------------------------------------
(* C1: an invocation of ContextRetriever._handle whose body has no app_id or
   an empty one, or for whose app_id no behaviour content is found, or that
   has no cbf_user_uuid or an empty one, ends with a ValueError and publishes
   nothing. *)
C1_RejectedPublishesNothing ==
    (ContextCall /\ ContextRejected) =>
        /\ call.outcome = "ValueError"
        /\ call.published = <<>>

\* the behaviour content was fetched over HTTP and found, the user id is missing
C1_Witness ==
    /\ ContextCall
    /\ ~MissingOrEmpty(ContextAppId)
    /\ call.http # <<>>
    /\ ~MissingOrEmpty(ContextContent)
    /\ MissingOrEmpty(ContextUserId)
    /\ call.outcome = "ValueError"

(* C2: a successful invocation of ContextRetriever._handle publishes exactly
   one event, of detail type "ContextRetrieved", whose message is the returned
   payload; the payload has the keys of the body and the two keys
   app_behaviour and user_long_term_memory, the body's value under every other
   key, and the retrieved behaviour content and last memory under those two. *)
C2_PublishedPayload ==
    (ContextCall /\ call.outcome = "ok") =>
        /\ Len(call.published) = 1
        /\ call.published[1].detail_type = "ContextRetrieved"
        /\ call.published[1].message = call.ret
        /\ DOMAIN call.ret.v = (DOMAIN call.arg.v) \cup OverriddenKeys
        /\ \A k \in (DOMAIN call.arg.v) \ OverriddenKeys : call.ret.v[k] = call.arg.v[k]
        /\ call.ret.v.app_behaviour = ContextContent
        /\ call.ret.v.user_long_term_memory = LatestMemory(memoryTable, ContextUserId)

\* the body carried values under the two keys, and a memory was stored
C2_Witness ==
    /\ ContextCall
    /\ call.outcome = "ok"
    /\ OverriddenKeys \subseteq DOMAIN call.arg.v
    /\ call.ret.v.app_behaviour # call.arg.v.app_behaviour
    /\ call.ret.v.user_long_term_memory \in Memories

(* C3: the user_long_term_memory that ContextRetriever publishes for a user is
   the memory of the stored item of that user with the greatest timestamp, and
   it is None exactly when the table holds no item of that user. *)
C3_PublishesLatestMemory ==
    (ContextCall /\ call.outcome = "ok") =>
        LET published == call.published[1].message.v.user_long_term_memory
            items == ItemsOf(memoryTable, ContextUserId)
        IN  /\ (published = None) <=> (items = {})
            /\ \A it \in items :
                  (\A other \in items : other.v.timestamp <= it.v.timestamp)
                      => published = it.v.memory

\* the user has two items, and an earlier invocation has looked the user up
C3_Witness ==
    /\ ContextCall
    /\ call.outcome = "ok"
    /\ Cardinality(ItemsOf(memoryTable, ContextUserId)) = 2
    /\ Len(memoryCache) = 2
    /\ call.published[1].message.v.user_long_term_memory = M1

-----------------------------------------------------------------------------
UpdaterCall == call.op = "LongMemoryUpdater"

UpdaterUserId == DictGet(call.arg, "cbf_user_uuid")

(* C4: the long-term-memory updater first reads the user's last item from the
   memory table, and the current summary in the prompt it sends to the AI
   endpoint is the memory of that item as stored when the invocation began. *)
C4_PromptHoldsStoredMemory ==
    (/\ UpdaterCall
     /\ call.http # <<>>
     /\ ItemsOf(call.before, UpdaterUserId) # {}) =>
        /\ call.queries >= 1
        /\ call.http[1].json_data.v.input.v.text =
               gen_prompt_input_msg(LatestMemory(call.before, UpdaterUserId),
                                    DictGet(call.arg, "user_message"),
                                    DictGet(call.arg, "bot_message"))

(* C5: an invocation of LongMemoryUpdater._handle whose body lacks
   cbf_user_uuid, user_message or bot_message, or holds an empty one, ends
   with a ValueError, makes no HTTP request and adds no item to the memory
   table. *)
C5_IncompleteRequestHasNoEffect ==
    (/\ UpdaterCall
     /\ \/ MissingOrEmpty(UpdaterUserId)
        \/ MissingOrEmpty(DictGet(call.arg, "user_message"))
        \/ MissingOrEmpty(DictGet(call.arg, "bot_message"))) =>
        /\ call.outcome = "ValueError"
        /\ call.http = <<>>
        /\ memoryTable = call.before

\* only bot_message is empty, and the table already holds items
C5_Witness ==
    /\ UpdaterCall
    /\ ~MissingOrEmpty(UpdaterUserId)
    /\ ~MissingOrEmpty(DictGet(call.arg, "user_message"))
    /\ DictGet(call.arg, "bot_message") = EmptyStr
    /\ call.outcome = "ValueError"
    /\ memoryTable # {}

(* C7: every environment variable that ContextRetriever._handle reads is one
   that KnowledgeManagerStack sets on ContextRetrieverLambda, so that the
   handler never stops for a variable the stack did not provide. *)
C7_StackProvidesEveryVariable ==
    ContextCall =>
        /\ call.envReads \subseteq ContextRetrieverLambdaEnvironment
        /\ call.outcome # "EnvVarMissing"

(* C9: a successful invocation of LongMemoryUpdater._handle adds exactly one
   item to the memory table, with the body's cbf_user_uuid as user_id and the
   "summary" of the AI output as memory, and leaves every item that was in the
   table in it, unchanged; also within one second. *)
C9_AddsOneItemKeepsTheRest ==
    (UpdaterCall /\ call.outcome = "ok") =>
        /\ Cardinality(memoryTable) = Cardinality(call.before) + 1
        /\ call.before \subseteq memoryTable
        /\ \E it \in memoryTable \ call.before :
              /\ it.v.user_id = UpdaterUserId
              /\ JsonSummary(it.v.memory) = call.http[1].response.v.body.v.output

-----------------------------------------------------------------------------
ContentCall == call.op \in {"get_behaviour_content", "get_role_content"}

SourceAttr ==
    IF call.op \in {"get_behaviour_content", "get_behaviour_source"}
    THEN "behaviour_source" ELSE "role_source"

\* the three cases of get_behaviour_content / get_role_content, for a source
ContentDecidedBy(source) ==
    /\ MissingOrEmpty(source) => (call.ret = None /\ call.http = <<>>)
    /\ (~MissingOrEmpty(source) /\ StartsWith(source, HttpPrefix)) =>
          /\ Len(call.http) = 1
          /\ call.http[1].method = "GET"
          /\ call.http[1].url = source
          /\ call.ret = DictGet(call.http[1].response, "body")
    /\ (~MissingOrEmpty(source) /\ ~StartsWith(source, HttpPrefix)) =>
          (call.ret = source /\ call.http = <<>>)

(* C6, as stated: get_behaviour_content(app_id) and get_role_content(app_id)
   return None when the table has no item for app_id or the item's source is
   absent or empty, the body of an HTTP GET on the source when it starts with
   "http", and otherwise the stored source, without an HTTP request. *)
C6_ContentFollowsTable ==
    ContentCall => ContentDecidedBy(StoredSource(call.before, SourceAttr, call.arg))

(* C6, amended: the source that decides is the one get_behaviour_source /
   get_role_source returns: the table's when the object has no memoized entry
   for app_id, and otherwise the memoized result of the object's earlier
   lookup, whatever the table holds by now. *)
C6_ContentFollowsMemoizedSource ==
    ContentCall =>
        ContentDecidedBy(IF call.cached THEN call.prevRet
                         ELSE StoredSource(call.before, SourceAttr, call.arg))

\* a memoized URL is fetched although the table holds another source by now
C6_Witness ==
    /\ ContentCall
    /\ call.cached
    /\ call.prevRet = Url
    /\ StoredSource(call.before, SourceAttr, call.arg) = Native
    /\ call.http # <<>>
    /\ call.ret = Page

-----------------------------------------------------------------------------
KnowledgeCall == call.op = "KnowledgeRetriever"

KnowledgeAppId == DictGet(call.arg, "app_id")

KnowledgeContent ==
    ContentOf(StoredSource(roleTable, "role_source", KnowledgeAppId), call.http)

(* C8: KnowledgeRetriever._handle ends with a ValueError and publishes nothing
   when app_id is missing or empty or no role content is found for it;
   otherwise it publishes exactly one event, of detail type
   "KnowledgeRetrieved", whose message is the returned payload: the body with
   the key app_role set to the retrieved role content. *)
C8_KnowledgeRetrieved ==
    KnowledgeCall =>
        IF MissingOrEmpty(KnowledgeAppId) \/ MissingOrEmpty(KnowledgeContent)
        THEN /\ call.outcome = "ValueError"
             /\ call.published = <<>>
        ELSE /\ call.outcome = "ok"
             /\ Len(call.published) = 1
             /\ call.published[1].detail_type = "KnowledgeRetrieved"
             /\ call.published[1].message = call.ret
             /\ DOMAIN call.ret.v = (DOMAIN call.arg.v) \cup {"app_role"}
             /\ \A k \in (DOMAIN call.arg.v) \ {"app_role"} :
                   call.ret.v[k] = call.arg.v[k]
             /\ call.ret.v.app_role = KnowledgeContent

\* the operator has stored a URL for the app; its page replaces the body's app_role
C8_Witness ==
    /\ KnowledgeCall
    /\ KnowledgeAppId = A5
    /\ call.outcome = "ok"
    /\ "app_role" \in DOMAIN call.arg.v
    /\ call.ret.v.app_role = Page
    /\ Len(call.published) = 1

-----------------------------------------------------------------------------
SourceLookup == call.op \in {"get_behaviour_source", "get_role_source", "get_last_memory"}

(* C10, as stated: a repeated call of get_behaviour_source, get_role_source or
   get_last_memory on the same object with the same key returns what the
   earlier call returned and does not query the table again, also when that
   was None and whatever was written to the table in between. *)
C10_RepeatedCallIsMemoized ==
    (SourceLookup /\ call.repeated) =>
        /\ call.ret = call.prevRet
        /\ call.queries = 0

(* C10, amended: that holds as long as fewer than maxsize = 128 other
   (object, key) pairs were looked up through the function since the key's
   last lookup; after that the entry is evicted, and the repeated call queries
   the table again and returns what the table holds then. *)
C10_MemoizedUntilEvicted ==
    (SourceLookup /\ call.repeated) =>
        IF call.others < maxsize
        THEN /\ call.ret = call.prevRet
             /\ call.queries = 0
        ELSE /\ call.queries = 1
             /\ call.ret = IF call.op = "get_last_memory"
                           THEN LatestItem(call.before, call.arg)
                           ELSE StoredSource(call.before, SourceAttr, call.arg)

\* a repeated call returns the memoized None although the table holds an item
\* by now, with other objects' lookups in between
C10_Witness ==
    /\ SourceLookup
    /\ call.repeated
    /\ call.others > 0
    /\ call.others < maxsize
    /\ call.prevRet = None
    /\ call.ret = None
    /\ call.queries = 0
    /\ call.op = "get_last_memory"
    /\ ItemsOf(call.before, call.arg) # {}

\* the entry has been evicted: the repeated call reads the table again
C10_Evicted ==
    /\ SourceLookup
    /\ call.repeated
    /\ call.others = maxsize
    /\ call.op = "get_last_memory"
    /\ call.prevRet = None
    /\ call.ret = UserLongTermMemory(U1, M1, 0)

-----------------------------------------------------------------------------
\* In SpecBO the memory table starts empty and only the held object's
\* add_memory writes it, each call at the clock's current second or later than
\* the calls before it: the item of a user with the greatest timestamp is the
\* record of the object's last add_memory for that user.
LastAdded(table, user_id) == LatestItem(table, user_id)

(* C11: read-your-writes on one UserLongTermMemoryBO: a get_last_memory(u)
   that follows an add_memory(u, m) on the same object, with no later add for
   u, returns the record whose memory is m, never an older record or None. *)
C11_ReadYourWrites ==
    (call.op = "get_last_memory" /\ ItemsOf(call.before, call.arg) # {}) =>
        /\ call.ret # None
        /\ call.ret = LastAdded(call.before, call.arg)

====
